---- MODULE Spec2Model ----
(***************************************************************************)
(* ASL parameter validation: the schema-driven engine of                   *)
(* json_validation.py (JSONValidator) and the domain-rule functions of     *)
(* utils.py / info_extraction_from_json.py.                                *)
(*                                                                         *)
(* A JSON value is a tagged record, so that Python's loosely typed         *)
(* comparisons (bool == int, str < int raising TypeError, truthiness) are  *)
(* computed as Python computes them.  Numbers are fixed point, in units of *)
(* 1/Scale, so that 0.5 is a value.  A dict is a function whose DOMAIN is  *)
(* its keys.                                                               *)
(***************************************************************************)
EXTENDS Integers, Sequences, FiniteSets, TLC

VARIABLES data, pc, idx, errors, warnings, values, call, ret

vars == <<data, pc, idx, errors, warnings, values, call, ret>>

----------------------------------------------------------------------------
(* Bounds of the model *)

\* numbers are multiples of 1/Scale
Scale == 2
\* longest list given as a voxel size
MaxLen == 4
\* most entries of a condition mapping
MaxEntries == 2

Half == Scale \div 2

----------------------------------------------------------------------------
(* Python values *)

None == [t |-> "none", s |-> "", b |-> FALSE, n |-> 0, l |-> <<>>]
Str(x) == [t |-> "str", s |-> x, b |-> FALSE, n |-> 0, l |-> <<>>]
Bool(x) == [t |-> "bool", s |-> "", b |-> x, n |-> 0, l |-> <<>>]
\* x is the number times Scale
Num(x) == [t |-> "num", s |-> "", b |-> FALSE, n |-> x, l |-> <<>>]
List(x) == [t |-> "list", s |-> "", b |-> FALSE, n |-> 0, l |-> x]
\* a whole number
Int_(k) == Num(k * Scale)

\* int, float and bool order with numbers; everything else raises TypeError
IsNumeric(v) == v.t \in {"num", "bool"}

NumOf(v) == IF v.t = "bool" THEN (IF v.b THEN Scale ELSE 0) ELSE v.n

RECURSIVE PyEq(_, _)
\* Python's ==
PyEq(a, b) ==
  IF IsNumeric(a) /\ IsNumeric(b) THEN NumOf(a) = NumOf(b)
  ELSE IF a.t # b.t THEN FALSE
  ELSE IF a.t = "str" THEN a.s = b.s
  ELSE IF a.t = "list"
    THEN /\ Len(a.l) = Len(b.l)
         /\ \A i \in 1..Len(a.l) : PyEq(a.l[i], b.l[i])
  ELSE TRUE

\* Python's in, on a list
PyIn(a, lst) == \E i \in 1..Len(lst) : PyEq(a, lst[i])

\* Python's truth value
PyTruthy(v) ==
  CASE v.t = "none" -> FALSE
    [] v.t = "bool" -> v.b
    [] v.t = "num" -> v.n # 0
    [] v.t = "str" -> v.s # ""
    [] v.t = "list" -> Len(v.l) > 0

----------------------------------------------------------------------------
(* utils.py: thresholds *)

MIN_PAIRS_WARNING_THRESHOLD == 0
MAX_PAIRS_WARNING_THRESHOLD == 10
MIN_PAIRS_ERROR_THRESHOLD == -1
MAX_PAIRS_ERROR_THRESHOLD == 100
VOXEL_SIZE_MIN_WARNING_THRESHOLD == 1
VOXEL_SIZE_MAX_WARNING_THRESHOLD == 10
VOXEL_SIZE_MIN_ERROR_THRESHOLD == 0
VOXEL_SIZE_MAX_ERROR_THRESHOLD == 100
VALID_ASL_TYPES == <<Str("PASL"), Str("PCASL"), Str("(P)CASL"), Str("Velocity-selective")>>

MIN_LABELING_DURATION_WARNING == 1
MAX_LABELING_DURATION_WARNING == 10
MIN_LABELING_DURATION_ERROR == 0
MAX_LABELING_DURATION_ERROR == 100
MIN_POST_LABELING_DELAY_WARNING == 1
MAX_POST_LABELING_DELAY_WARNING == 10
MIN_POST_LABELING_DELAY_ERROR == 0
MAX_POST_LABELING_DELAY_ERROR == 100

MIN_INVERSION_TIME_ERROR_THRESHOLD == 0

\* v < k and v > k for a number v and a threshold k of the code
Lt(v, k) == NumOf(v) < k * Scale
Gt(v, k) == NumOf(v) > k * Scale

----------------------------------------------------------------------------
(* utils.py: what a validate_* function hands back *)

\* return errors, warnings, value
Return(e, w, v) == [raised |-> FALSE, errors |-> e, warnings |-> w, value |-> v]
\* an uncaught TypeError: nothing is returned
Raise == [raised |-> TRUE, errors |-> <<>>, warnings |-> <<>>, value |-> None]

MsgAslType == "Invalid 'ArterialSpinLabelingType'"
MsgBackgroundSuppression == "Missing or invalid 'BackgroundSuppression' (should be True or False)"
MsgM0b == "Missing or invalid 'Method for M0b estimation'"
MsgPairsRange == "'TotalAcquiredPairs' out of valid range (-1-100)"
MsgPairsWarn == "'TotalAcquiredPairs' is 0 or greater than 10, which may be unusual"
MsgVoxelShape == "Invalid 'AcquisitionVoxelSize' (should be a list of 3 numbers)"
MsgVoxelRange == "'AcquisitionVoxelSize' out of valid range (0-100)"
MsgVoxelWarn == "'AcquisitionVoxelSize' is in a warning range (0-1 or 10-100)"
MsgDurationRange == "'LabelingDuration' out of valid range (0-100)"
MsgDurationWarn == "'LabelingDuration' is less than 1 or greater than 10, which may be unusual"
MsgDelayRange == "'PostLabelingDelay' out of valid range (0-100)"
MsgDelayWarn == "'PostLabelingDelay' is less than 1 or greater than 10, which may be unusual"
MsgInversion == "'InversionTime' not greater than 0"
MsgDurationMissing == "Required labeling duration parameter for pcasl not provided"
MsgDelayMissing == "Required post labeling delay parameter for pcasl not provided"

validate_asl_type(asl_type) ==
  IF ~PyIn(asl_type, VALID_ASL_TYPES)
    THEN Return(<<MsgAslType>>, <<>>, asl_type)
    ELSE Return(<<>>, <<>>, asl_type)

validate_background_suppression(bs) ==
  LET v == IF PyTruthy(bs) THEN Str("Yes") ELSE Str("No")
  IN IF ~PyIn(bs, <<Bool(TRUE), Bool(FALSE)>>)
       THEN Return(<<MsgBackgroundSuppression>>, <<>>, v)
       ELSE Return(<<>>, <<>>, v)

validate_m0b_method(m0b_method) ==
  IF ~PyTruthy(m0b_method)
    THEN Return(<<MsgM0b>>, <<>>, m0b_method)
    ELSE Return(<<>>, <<>>, m0b_method)

validate_total_pairs(total_pairs) ==
  IF ~IsNumeric(total_pairs) THEN Raise
  ELSE IF Lt(total_pairs, MIN_PAIRS_ERROR_THRESHOLD) \/ Gt(total_pairs, MAX_PAIRS_ERROR_THRESHOLD)
    THEN Return(<<MsgPairsRange>>, <<>>, total_pairs)
  ELSE IF NumOf(total_pairs) = 0 \/ Gt(total_pairs, MAX_PAIRS_WARNING_THRESHOLD)
    THEN Return(<<>>, <<MsgPairsWarn>>, total_pairs)
  ELSE Return(<<>>, <<>>, total_pairs)

RECURSIVE voxel_loop(_, _, _, _)
\* for size in voxel_size: from element i on, with the lists built so far
voxel_loop(voxel_size, i, e, w) ==
  IF i > Len(voxel_size.l) THEN Return(e, w, voxel_size)
  ELSE LET size == voxel_size.l[i]
       IN IF ~IsNumeric(size) THEN Raise
          ELSE IF Lt(size, VOXEL_SIZE_MIN_ERROR_THRESHOLD) \/ Gt(size, VOXEL_SIZE_MAX_ERROR_THRESHOLD)
            THEN voxel_loop(voxel_size, i + 1, Append(e, MsgVoxelRange), w)
          ELSE IF Lt(size, VOXEL_SIZE_MIN_WARNING_THRESHOLD) \/ Gt(size, VOXEL_SIZE_MAX_WARNING_THRESHOLD)
            THEN voxel_loop(voxel_size, i + 1, e, Append(w, MsgVoxelWarn))
          ELSE voxel_loop(voxel_size, i + 1, e, w)

validate_voxel_size(voxel_size) ==
  IF voxel_size.t # "list" \/ Len(voxel_size.l) # 3
    THEN Return(<<MsgVoxelShape>>, <<>>, voxel_size)
    ELSE voxel_loop(voxel_size, 1, <<>>, <<>>)

validate_labeling_duration(labeling_duration) ==
  IF ~IsNumeric(labeling_duration) THEN Raise
  ELSE IF Lt(labeling_duration, MIN_LABELING_DURATION_ERROR) \/ Gt(labeling_duration, MAX_LABELING_DURATION_ERROR)
    THEN Return(<<MsgDurationRange>>, <<>>, labeling_duration)
  ELSE IF Lt(labeling_duration, MIN_LABELING_DURATION_WARNING) \/ Gt(labeling_duration, MAX_LABELING_DURATION_WARNING)
    THEN Return(<<>>, <<MsgDurationWarn>>, labeling_duration)
  ELSE Return(<<>>, <<>>, labeling_duration)

validate_post_labeling_delay(post_labeling_delay) ==
  IF ~IsNumeric(post_labeling_delay) THEN Raise
  ELSE IF Lt(post_labeling_delay, MIN_POST_LABELING_DELAY_ERROR) \/ Gt(post_labeling_delay, MAX_POST_LABELING_DELAY_ERROR)
    THEN Return(<<MsgDelayRange>>, <<>>, post_labeling_delay)
  ELSE IF Lt(post_labeling_delay, MIN_POST_LABELING_DELAY_WARNING) \/ Gt(post_labeling_delay, MAX_POST_LABELING_DELAY_WARNING)
    THEN Return(<<>>, <<MsgDelayWarn>>, post_labeling_delay)
  ELSE Return(<<>>, <<>>, post_labeling_delay)

validate_inversion_time(inversion_time) ==
  IF ~IsNumeric(inversion_time) THEN Raise
  ELSE IF ~Gt(inversion_time, MIN_INVERSION_TIME_ERROR_THRESHOLD)
    THEN Return(<<MsgInversion>>, <<>>, inversion_time)
  ELSE Return(<<>>, <<>>, inversion_time)

----------------------------------------------------------------------------
(* Inputs of the domain-rule validators *)

\* numbers around every threshold of utils.py, halves included
Numbers ==
  {Int_(k) : k \in {-2, -1, 0, 1, 5, 10, 11, 100, 101}}
    \cup {Num(-Half), Num(Half), Num(10 * Scale + Half), Num(100 * Scale + Half)}

\* the elements a voxel size is built from
VoxelElements == {Int_(-1), Int_(0), Num(Half), Int_(3), Num(10 * Scale + Half), Int_(101)}

RECURSIVE SeqsOf(_, _)
\* the sequences over S of length n
SeqsOf(S, n) ==
  IF n = 0 THEN {<<>>}
  ELSE {Append(q, x) : q \in SeqsOf(S, n - 1), x \in S}

NumberLists == UNION {{List(q) : q \in SeqsOf({Int_(3), Num(Half)}, n)} : n \in (0..MaxLen) \ {3}}
                 \cup {List(q) : q \in SeqsOf(VoxelElements, 3)}

Scalars == Numbers \cup {None, Bool(TRUE), Bool(FALSE), Str("true"), Str("false"), Str(""), Str("PCASL")}

Functions == {"validate_total_pairs", "validate_labeling_duration", "validate_post_labeling_delay",
              "validate_voxel_size", "validate_inversion_time", "validate_background_suppression"}

Apply(fn, arg) ==
  CASE fn = "validate_total_pairs" -> validate_total_pairs(arg)
    [] fn = "validate_labeling_duration" -> validate_labeling_duration(arg)
    [] fn = "validate_post_labeling_delay" -> validate_post_labeling_delay(arg)
    [] fn = "validate_voxel_size" -> validate_voxel_size(arg)
    [] fn = "validate_inversion_time" -> validate_inversion_time(arg)
    [] fn = "validate_background_suppression" -> validate_background_suppression(arg)

Idle == <<>>

InitUtils ==
  /\ call \in [fn : Functions, arg : Scalars \cup NumberLists]
  /\ pc = "call"
  /\ ret = Raise
  /\ data = Idle /\ idx = 0 /\ errors = Idle /\ warnings = Idle /\ values = Idle

CallValidator ==
  /\ pc = "call"
  /\ ret' = Apply(call.fn, call.arg)
  /\ pc' = IF ret'.raised THEN "raised" ELSE "returned"
  /\ UNCHANGED <<data, idx, errors, warnings, values, call>>

NextUtils == CallValidator

SpecUtils == InitUtils /\ [][NextUtils]_vars

----------------------------------------------------------------------------
(* Records: a dict is a function whose DOMAIN is its keys *)

\* in the generators, the choice of leaving a key out
Absent == [t |-> "absent", s |-> "", b |-> FALSE, n |-> 0, l |-> <<>>]

\* the dict with the keys of c that were not left out
FromChoice(c) == [k \in {x \in DOMAIN c : c[x].t # "absent"} |-> c[k]]

\* data.get(key, default)
Get(d, key, default) == IF key \in DOMAIN d THEN d[key] ELSE default

\* values[key] = v
Put(m, key, v) == [k \in DOMAIN m \cup {key} |-> IF k = key THEN v ELSE m[k]]

EmptyDict == [k \in {} |-> None]

----------------------------------------------------------------------------
(* info_extraction_from_json.py: verify_general_parameters *)

GeneralChoices ==
  [ArterialSpinLabelingType : {Absent, Str("PCASL"), Str("XASL"), Int_(1)},
   BackgroundSuppression : {Absent, Bool(TRUE), Bool(FALSE), Str("true"), Int_(1)},
   M0Type : {Absent, Str("Separate"), Str("")},
   TotalAcquiredPairs : {Absent, None, Int_(5), Int_(0), Int_(-1), Int_(101), Str("many")},
   AcquisitionVoxelSize : {Absent, Int_(3), List(<<Int_(3), Int_(3), Int_(3)>>),
                           List(<<Num(Half), Int_(3), Int_(3)>>),
                           List(<<Int_(3), Str("x"), Int_(3)>>),
                           List(<<Int_(3), Int_(3)>>)}]

InitGeneral ==
  /\ data \in {FromChoice(c) : c \in GeneralChoices}
  /\ pc = "asl_type"
  /\ errors = <<>> /\ warnings = <<>> /\ values = EmptyDict
  /\ idx = 0 /\ call = Idle /\ ret = Idle

\* e, w, v = validate_x(...); errors.extend(e); warnings.extend(w); values[key] = v
\* A TypeError of the validator leaves the function: its locals are gone.
Extend(r, key, next) ==
  IF r.raised
    THEN /\ pc' = "raised"
         /\ errors' = <<>> /\ warnings' = <<>> /\ values' = EmptyDict
    ELSE /\ pc' = next
         /\ errors' = errors \o r.errors
         /\ warnings' = warnings \o r.warnings
         /\ values' = Put(values, key, r.value)

GeneralAslType ==
  /\ pc = "asl_type"
  /\ Extend(validate_asl_type(Get(data, "ArterialSpinLabelingType", Str(""))),
            "ArterialSpinLabelingType", "background_suppression")
  /\ UNCHANGED <<data, idx, call, ret>>

GeneralBackgroundSuppression ==
  /\ pc = "background_suppression"
  /\ Extend(validate_background_suppression(Get(data, "BackgroundSuppression", None)),
            "BackgroundSuppression", "m0b_method")
  /\ UNCHANGED <<data, idx, call, ret>>

GeneralM0bMethod ==
  /\ pc = "m0b_method"
  /\ Extend(validate_m0b_method(Get(data, "M0Type", Str(""))),
            "MethodForM0bEstimation", "total_pairs")
  /\ UNCHANGED <<data, idx, call, ret>>

GeneralTotalPairs ==
  /\ pc = "total_pairs"
  /\ Extend(validate_total_pairs(Get(data, "TotalAcquiredPairs", Int_(-1))),
            "TotalAcquiredPairs", "voxel_size")
  /\ UNCHANGED <<data, idx, call, ret>>

GeneralVoxelSize ==
  /\ pc = "voxel_size"
  /\ Extend(validate_voxel_size(Get(data, "AcquisitionVoxelSize", List(<<>>))),
            "AcquisitionVoxelSize", "returned")
  /\ UNCHANGED <<data, idx, call, ret>>

NextGeneral ==
  \/ GeneralAslType
  \/ GeneralBackgroundSuppression
  \/ GeneralM0bMethod
  \/ GeneralTotalPairs
  \/ GeneralVoxelSize

SpecGeneral == InitGeneral /\ [][NextGeneral]_vars

----------------------------------------------------------------------------
(* info_extraction_from_json.py: verify_PCASL_required_parameters *)

DurationSamples == {Absent, None, Int_(2), Num(Half), Int_(-1), Int_(101), Str("long")}

PcaslChoices ==
  [ArterialSpinLabelingType : {Absent, Str("PASL"), Str("PCASL"), Str("(P)CASL")},
   ArterialSpinType : {Absent, Str("(P)CASL"), Str("PCASL")},
   LabelingDuration : DurationSamples,
   PostLabelingDelay : DurationSamples]

InitPcasl ==
  /\ data \in {FromChoice(c) : c \in PcaslChoices}
  /\ pc = "gate"
  /\ errors = <<>> /\ warnings = <<>> /\ values = EmptyDict
  /\ idx = 0 /\ call = Idle /\ ret = Idle

\* the condition of line 61
PcaslGate(d) ==
  \/ PyEq(Get(d, "ArterialSpinLabelingType", None), Str("PCASL"))
  \/ PyEq(Get(d, "ArterialSpinType", None), Str("(P)CASL"))

PcaslBranch ==
  /\ pc = "gate"
  /\ IF PcaslGate(data)
       THEN /\ pc' = "labeling_duration"
            /\ UNCHANGED <<errors, warnings, values>>
       ELSE /\ values' = Put(Put(values, "LabelingDuration", Str("Not applicable")),
                             "PostLabelingDelay", Str("Not applicable"))
            /\ pc' = "returned"
            /\ UNCHANGED <<errors, warnings>>
  /\ UNCHANGED <<data, idx, call, ret>>

PcaslLabelingDuration ==
  /\ pc = "labeling_duration"
  /\ LET labeling_duration == Get(data, "LabelingDuration", None)
     IN IF labeling_duration.t = "none"
          THEN /\ errors' = Append(errors, MsgDurationMissing)
               /\ pc' = "post_labeling_delay"
               /\ UNCHANGED <<warnings, values>>
          ELSE Extend(validate_labeling_duration(labeling_duration),
                      "LabelingDuration", "post_labeling_delay")
  /\ UNCHANGED <<data, idx, call, ret>>

PcaslPostLabelingDelay ==
  /\ pc = "post_labeling_delay"
  /\ LET post_labeling_delay == Get(data, "PostLabelingDelay", None)
     IN IF post_labeling_delay.t = "none"
          THEN /\ errors' = Append(errors, MsgDelayMissing)
               /\ pc' = "returned"
               /\ UNCHANGED <<warnings, values>>
          ELSE Extend(validate_post_labeling_delay(post_labeling_delay),
                      "PostLabelingDelay", "returned")
  /\ UNCHANGED <<data, idx, call, ret>>

NextPcasl ==
  \/ PcaslBranch
  \/ PcaslLabelingDuration
  \/ PcaslPostLabelingDelay

SpecPcasl == InitPcasl /\ [][NextPcasl]_vars

----------------------------------------------------------------------------
(* json_validation.py: JSONValidator.should_apply_validation *)

\* a condition of a condition schema: "all", or a dict given as its items in order
All == [kind |-> "all", entries |-> <<>>]
Mapping(items) == [kind |-> "dict", entries |-> items]
\* a condition that is neither "all" nor a dict
Other == [kind |-> "other", entries |-> <<>>]
Entry(k, v) == [key |-> k, value |-> v]

RECURSIVE condition_loop(_, _, _)
\* for key, value in condition.items(): from item i on
condition_loop(d, items, i) ==
  IF i > Len(items) THEN TRUE
  ELSE LET key == items[i].key
           value == items[i].value
       IN IF value.t = "list"
            THEN IF ~PyIn(Get(d, key, None), value.l) THEN FALSE
                 ELSE condition_loop(d, items, i + 1)
          ELSE IF ~PyEq(Get(d, key, None), value) THEN FALSE
          ELSE condition_loop(d, items, i + 1)

\* a slip: return True inside the loop, so only the first item is looked at
should_apply_validation_first_item(d, condition) ==
  IF condition.kind = "all" THEN TRUE
  ELSE IF condition.kind = "dict"
    THEN IF condition.entries = <<>> THEN TRUE
         ELSE condition_loop(d, <<condition.entries[1]>>, 1)
  ELSE TRUE

should_apply_validation(d, condition) ==
  IF condition.kind = "all" THEN TRUE
  ELSE IF condition.kind = "dict" THEN condition_loop(d, condition.entries, 1)
  ELSE TRUE

----------------------------------------------------------------------------
(* should_apply_validation on its own *)

ConditionKeys == {"ArterialSpinLabelingType", "BackgroundSuppression", "VascularCrushing"}

Expected == {Str("PASL"), List(<<Str("PCASL"), Str("CASL")>>), Bool(TRUE), Bool(FALSE)}

\* the item lists of a dict: no key twice
Items ==
  {q \in UNION {SeqsOf({Entry(k, v) : k \in ConditionKeys, v \in Expected}, n) : n \in 0..MaxEntries} :
     \A i, j \in 1..Len(q) : i # j => q[i].key # q[j].key}

Conditions == {All, Other} \cup {Mapping(q) : q \in Items}

ConditionChoices ==
  [ArterialSpinLabelingType : {Absent, Str("PASL"), Str("PCASL"), Str("XASL")},
   BackgroundSuppression : {Absent, Bool(TRUE), Bool(FALSE), Int_(1)},
   VascularCrushing : {Absent, None, Bool(TRUE)}]

InitCondition ==
  /\ data \in {FromChoice(c) : c \in ConditionChoices}
  /\ call \in Conditions
  /\ pc = "call"
  /\ ret = FALSE
  /\ idx = 0 /\ errors = Idle /\ warnings = Idle /\ values = Idle

CallCondition ==
  /\ pc = "call"
  /\ ret' = should_apply_validation(data, call)
  /\ pc' = "returned"
  /\ UNCHANGED <<data, idx, errors, warnings, values, call>>

NextCondition == CallCondition

SpecCondition == InitCondition /\ [][NextCondition]_vars

----------------------------------------------------------------------------
(* The field validators of the validator module, which json_validation.py  *)
(* imports: validate(raw) hands back (error, warning), each a message or   *)
(* nothing ("").  An optional threshold is a set with at most one element. *)

Validator(kind) ==
  [kind |-> kind, allowed_values |-> <<>>, size_error |-> {},
   min_error |-> {}, min_error_include |-> {}, max_error_include |-> {}]

StringValidator == Validator("String")
StringValidatorOf(allowed) == [Validator("String") EXCEPT !.allowed_values = allowed]
BooleanValidator == Validator("Boolean")
NumberValidator == Validator("Number")
NumberArrayValidator == Validator("NumberArray")
NumberOrNumberArrayValidator == Validator("NumberOrNumberArray")

\* a number outside the hard range of the validator
OutOfRange(validator, v) ==
  \/ \E m \in validator.min_error : ~Gt(v, m)
  \/ \E m \in validator.min_error_include : Lt(v, m)
  \/ \E m \in validator.max_error_include : Gt(v, m)

NumberValidate(validator, raw) ==
  IF raw.t # "num" THEN [error |-> "must be a number", warning |-> ""]
  ELSE IF OutOfRange(validator, raw) THEN [error |-> "out of valid range", warning |-> ""]
  ELSE [error |-> "", warning |-> ""]

NumberArrayValidate(validator, raw) ==
  IF raw.t # "list" THEN [error |-> "must be a list of numbers", warning |-> ""]
  ELSE IF \E n \in validator.size_error : Len(raw.l) # n
    THEN [error |-> "wrong number of elements", warning |-> ""]
  ELSE IF \E i \in 1..Len(raw.l) : raw.l[i].t # "num"
    THEN [error |-> "must be a list of numbers", warning |-> ""]
  ELSE IF \E i \in 1..Len(raw.l) : OutOfRange(validator, raw.l[i])
    THEN [error |-> "out of valid range", warning |-> ""]
  ELSE [error |-> "", warning |-> ""]

ValidatorValidate(validator, raw) ==
  CASE validator.kind = "String" ->
         IF raw.t # "str" \/ raw.s = "" THEN [error |-> "must be a string", warning |-> ""]
         ELSE IF Len(validator.allowed_values) > 0 /\ ~PyIn(raw, validator.allowed_values)
           THEN [error |-> "not one of the allowed values", warning |-> ""]
         ELSE [error |-> "", warning |-> ""]
    [] validator.kind = "Boolean" ->
         IF raw.t # "bool" THEN [error |-> "must be true or false", warning |-> ""]
         ELSE [error |-> "", warning |-> ""]
    [] validator.kind = "Number" -> NumberValidate(validator, raw)
    [] validator.kind = "NumberArray" -> NumberArrayValidate(validator, raw)
    [] validator.kind = "NumberOrNumberArray" ->
         IF raw.t = "list" THEN NumberArrayValidate(validator, raw)
         ELSE NumberValidate(validator, raw)

----------------------------------------------------------------------------
(* json_validation.py: the schema tables of main *)

\* the keys of required_validator_schema, in the order of the dict
RequiredFields ==
  <<"ArterialSpinLabelingType", "BackgroundSuppression", "M0Type", "TotalAcquiredPairs",
    "AcquisitionVoxelSize", "LabelingDuration", "PostLabelingDelay", "InversionTime",
    "BolusCutOffTechnique", "BolusCutOffDelayTime">>

\* the keys of recommended_validator_schema, in the order of the dict
RecommendedFields ==
  <<"BackgroundSuppressionNumberPulses", "BackgroundSuppressionPulseTime",
    "LabelingLocationDescription", "VascularCrushingVENC", "PCASLType", "CASLType",
    "LabelingDistance", "LabelingPulseAverageGradient", "LabelingPulseMaximumGradient",
    "LabelingPulseAverageB1", "LabelingPulseFlipAngle", "LabelingPulseInterval",
    "LabelingPulseDuration", "PASLType", "LabelingSlabThickness">>

Range(q) == {q[i] : i \in 1..Len(q)}

required_validator_schema ==
  [f \in Range(RequiredFields) |->
    CASE f = "ArterialSpinLabelingType" ->
           StringValidatorOf(<<Str("PASL"), Str("(P)CASL"), Str("PCASL")>>)
      [] f = "BackgroundSuppression" -> BooleanValidator
      [] f = "M0Type" -> StringValidator
      [] f = "TotalAcquiredPairs" -> [NumberValidator EXCEPT !.min_error = {0}]
      [] f = "AcquisitionVoxelSize" -> [NumberArrayValidator EXCEPT !.size_error = {3}]
      [] f = "LabelingDuration" -> NumberValidator
      [] f = "PostLabelingDelay" -> NumberOrNumberArrayValidator
      [] f = "InversionTime" -> [NumberValidator EXCEPT !.min_error = {0}]
      [] f = "BolusCutOffTechnique" -> StringValidator
      [] f = "BolusCutOffDelayTime" -> NumberOrNumberArrayValidator]

PcaslOrCasl == Mapping(<<Entry("ArterialSpinLabelingType", List(<<Str("PCASL"), Str("CASL")>>))>>)
Pasl == Mapping(<<Entry("ArterialSpinLabelingType", Str("PASL"))>>)

required_condition_schema ==
  [f \in Range(RequiredFields) |->
    CASE f \in {"LabelingDuration", "PostLabelingDelay"} -> PcaslOrCasl
      [] f \in {"InversionTime", "BolusCutOffTechnique", "BolusCutOffDelayTime"} -> Pasl
      [] OTHER -> All]

recommended_validator_schema ==
  [f \in Range(RecommendedFields) |->
    CASE f = "BackgroundSuppressionNumberPulses" -> [NumberValidator EXCEPT !.min_error_include = {0}]
      [] f = "BackgroundSuppressionPulseTime" -> [NumberArrayValidator EXCEPT !.min_error = {0}]
      [] f = "LabelingLocationDescription" -> StringValidator
      [] f = "VascularCrushingVENC" -> [NumberOrNumberArrayValidator EXCEPT !.min_error_include = {0}]
      [] f = "PCASLType" -> StringValidatorOf(<<Str("balanced"), Str("unbalanced")>>)
      [] f = "CASLType" -> StringValidatorOf(<<Str("single-coil"), Str("double-coil")>>)
      [] f = "LabelingDistance" -> NumberValidator
      [] f \in {"LabelingPulseAverageGradient", "LabelingPulseMaximumGradient",
                "LabelingPulseAverageB1", "LabelingPulseInterval", "LabelingPulseDuration"} ->
           [NumberValidator EXCEPT !.min_error = {0}]
      [] f = "LabelingPulseFlipAngle" ->
           [NumberValidator EXCEPT !.min_error = {0}, !.max_error_include = {360}]
      [] f = "PASLType" -> StringValidator
      [] f = "LabelingSlabThickness" -> [NumberValidator EXCEPT !.min_error_include = {0}]]

recommended_condition_schema ==
  [f \in Range(RecommendedFields) |->
    CASE f \in {"BackgroundSuppressionNumberPulses", "BackgroundSuppressionPulseTime"} ->
           Mapping(<<Entry("BackgroundSuppression", Bool(TRUE))>>)
      [] f \in {"LabelingLocationDescription", "LabelingDistance"} -> All
      [] f = "VascularCrushingVENC" -> Mapping(<<Entry("VascularCrushing", Bool(TRUE))>>)
      [] f = "PCASLType" -> Mapping(<<Entry("ArterialSpinLabelingType", Str("PCASL"))>>)
      [] f = "CASLType" -> Mapping(<<Entry("ArterialSpinLabelingType", Str("CASL"))>>)
      [] f \in {"PASLType", "LabelingSlabThickness"} -> Pasl
      [] OTHER -> PcaslOrCasl]

----------------------------------------------------------------------------
(* json_validation.py: JSONValidator.validate and apply_schema *)

MsgMissing == "Missing required parameter"
RecommendedSentinel == Str("Recommended to be specified")

Outputs(e, w, v) == [errors |-> e, warnings |-> w, values |-> v]

\* a slip: the value is read with data.get(field) and stored for a missing field too
apply_schema_field_stores_missing(d, e, w, v, field, validator, condition, is_required) ==
  IF should_apply_validation(d, condition)
    THEN IF field \notin DOMAIN d /\ is_required
           THEN Outputs(Put(e, field, MsgMissing), w, Put(v, field, None))
         ELSE IF field \in DOMAIN d
           THEN LET r == ValidatorValidate(validator, d[field])
                IN Outputs(IF r.error # "" THEN Put(e, field, r.error) ELSE e,
                           IF r.warning # "" THEN Put(w, field, r.warning) ELSE w,
                           Put(v, field, d[field]))
         ELSE IF ~is_required THEN Outputs(e, w, Put(v, field, RecommendedSentinel))
         ELSE Outputs(e, w, v)
    ELSE Outputs(e, w, v)

\* a slip: the error of a present field is dropped
apply_schema_field_drops_error(d, e, w, v, field, validator, condition, is_required) ==
  IF should_apply_validation(d, condition)
    THEN IF field \notin DOMAIN d /\ is_required
           THEN Outputs(Put(e, field, MsgMissing), w, v)
         ELSE IF field \in DOMAIN d
           THEN LET r == ValidatorValidate(validator, d[field])
                IN Outputs(e,
                           IF r.warning # "" THEN Put(w, field, r.warning) ELSE w,
                           Put(v, field, d[field]))
         ELSE IF ~is_required THEN Outputs(e, w, Put(v, field, RecommendedSentinel))
         ELSE Outputs(e, w, v)
    ELSE Outputs(e, w, v)

\* the body of the loop of apply_schema, for one field of the schema
apply_schema_field(d, e, w, v, field, validator, condition, is_required) ==
  IF should_apply_validation(d, condition)
    THEN IF field \notin DOMAIN d /\ is_required
           THEN Outputs(Put(e, field, MsgMissing), w, v)
         ELSE IF field \in DOMAIN d
           THEN LET r == ValidatorValidate(validator, d[field])
                IN Outputs(IF r.error # "" THEN Put(e, field, r.error) ELSE e,
                           IF r.warning # "" THEN Put(w, field, r.warning) ELSE w,
                           Put(v, field, d[field]))
         ELSE IF ~is_required THEN Outputs(e, w, Put(v, field, RecommendedSentinel))
         ELSE Outputs(e, w, v)
    ELSE Outputs(e, w, v)

\* a value the validator accepts
ValidSample(validator) ==
  CASE validator.kind = "String" ->
         IF Len(validator.allowed_values) > 0 THEN validator.allowed_values[1] ELSE Str("Separate")
    [] validator.kind = "Boolean" -> Bool(TRUE)
    [] validator.kind = "NumberArray" -> List(<<Int_(5), Int_(5), Int_(5)>>)
    [] OTHER -> Int_(5)

ValidatorOf(f) ==
  IF f \in Range(RequiredFields) THEN required_validator_schema[f]
  ELSE recommended_validator_schema[f]

ControlFields == {"ArterialSpinLabelingType", "BackgroundSuppression", "VascularCrushing"}

OtherFields == (Range(RequiredFields) \cup Range(RecommendedFields)) \ ControlFields

FocusSamples ==
  {Absent, None, Str("PCASL"), Str(""), Int_(5), Int_(-1), Bool(TRUE),
   List(<<Int_(5), Int_(5), Int_(5)>>), List(<<Int_(5), Str("x")>>)}

\* The records given to validate: the three controlling fields take every
\* value of interest, one other field takes any sample, and the remaining
\* fields are either all left out or all given a value their validator accepts.
EngineRecords ==
  {FromChoice([k \in ControlFields \cup OtherFields |->
      CASE k = "ArterialSpinLabelingType" -> asl
        [] k = "BackgroundSuppression" -> bs
        [] k = "VascularCrushing" -> vc
        [] k = focus -> sample
        [] OTHER -> IF filled THEN ValidSample(ValidatorOf(k)) ELSE Absent]) :
     asl \in {Absent, Str("PASL"), Str("PCASL"), Str("CASL"), Str("XASL")},
     bs \in {Absent, Bool(TRUE), Bool(FALSE)},
     vc \in {Absent, Bool(TRUE)},
     focus \in OtherFields,
     sample \in FocusSamples,
     filled \in BOOLEAN}

InitEngine ==
  /\ data \in EngineRecords
  /\ pc = "required"
  /\ idx = 1
  /\ errors = EmptyDict /\ warnings = EmptyDict /\ values = EmptyDict
  /\ call = Idle /\ ret = Idle

Assign(out) ==
  /\ errors' = out.errors
  /\ warnings' = out.warnings
  /\ values' = out.values

\* one turn of the loop of apply_schema(required ..., True)
ApplyRequired ==
  /\ pc = "required"
  /\ LET field == RequiredFields[idx]
     IN Assign(apply_schema_field(data, errors, warnings, values, field,
                                  required_validator_schema[field],
                                  required_condition_schema[field], TRUE))
  /\ IF idx < Len(RequiredFields)
       THEN idx' = idx + 1 /\ pc' = pc
       ELSE idx' = 1 /\ pc' = "recommended"
  /\ UNCHANGED <<data, call, ret>>

\* one turn of the loop of apply_schema(recommended ..., False)
ApplyRecommended ==
  /\ pc = "recommended"
  /\ LET field == RecommendedFields[idx]
     IN Assign(apply_schema_field(data, errors, warnings, values, field,
                                  recommended_validator_schema[field],
                                  recommended_condition_schema[field], FALSE))
  /\ IF idx < Len(RecommendedFields)
       THEN idx' = idx + 1 /\ pc' = pc
       ELSE idx' = 0 /\ pc' = "returned"
  /\ UNCHANGED <<data, call, ret>>

NextEngine ==
  \/ ApplyRequired
  \/ ApplyRecommended

SpecEngine == InitEngine /\ [][NextEngine]_vars

----------------------------------------------------------------------------
(* Claims about the engine, under SpecEngine *)

RequiredApplies(f) == should_apply_validation(data, required_condition_schema[f])
RecommendedApplies(f) == should_apply_validation(data, recommended_condition_schema[f])

\* C1: after validate returns, every required field whose condition holds and
\* which is not a key of the record has the one message "Missing required
\* parameter" in errors and is a key of neither values nor warnings.
C1_MissingRequired ==
  pc = "returned" =>
    \A f \in Range(RequiredFields) :
      (RequiredApplies(f) /\ f \notin DOMAIN data) =>
        /\ f \in DOMAIN errors
        /\ errors[f] = MsgMissing
        /\ f \notin DOMAIN values
        /\ f \notin DOMAIN warnings

\* a PCASL record without LabelingDuration, validated, while other required
\* fields are present
C1_Witness ==
  /\ pc = "returned"
  /\ "ArterialSpinLabelingType" \in DOMAIN data
  /\ data["ArterialSpinLabelingType"] = Str("PCASL")
  /\ "LabelingDuration" \notin DOMAIN data
  /\ "PostLabelingDelay" \in DOMAIN data
  /\ "LabelingDuration" \in DOMAIN errors

\* C2: after validate returns, every recommended field is a key of values:
\* "Not applicable" when its condition is false, "Recommended to be
\* specified" when its condition is true and the record lacks it.
C2_RecommendedAlwaysInValues ==
  pc = "returned" =>
    \A f \in Range(RecommendedFields) :
      /\ f \in DOMAIN values
      /\ ~RecommendedApplies(f) => values[f] = Str("Not applicable")
      /\ (RecommendedApplies(f) /\ f \notin DOMAIN data) => values[f] = RecommendedSentinel

\* C3 as stated: after validate returns, every required field whose condition
\* holds is a key of exactly one of errors and values: of errors when the
\* record lacks it, of values otherwise.
C3_ExactlyOneOfErrorsValues ==
  pc = "returned" =>
    \A f \in Range(RequiredFields) :
      RequiredApplies(f) =>
        /\ (f \in DOMAIN errors) # (f \in DOMAIN values)
        /\ (f \in DOMAIN errors) <=> (f \notin DOMAIN data)

\* C3 as amended: after validate returns, every required field whose condition
\* holds is a key of errors and not of values when the record lacks it; when
\* the record has it, it is a key of values with the raw value, and also a key
\* of errors exactly when its validator reports an error.
C3_ErrorsOrValues ==
  pc = "returned" =>
    \A f \in Range(RequiredFields) :
      RequiredApplies(f) =>
        IF f \notin DOMAIN data
          THEN f \in DOMAIN errors /\ f \notin DOMAIN values
          ELSE /\ f \in DOMAIN values
               /\ values[f] = data[f]
               /\ (f \in DOMAIN errors) <=>
                    (ValidatorValidate(required_validator_schema[f], data[f]).error # "")

\* a present required field that its validator rejects: in errors and in values
C3_Witness ==
  /\ pc = "returned"
  /\ \E f \in Range(RequiredFields) :
       /\ RequiredApplies(f)
       /\ f \in DOMAIN data
       /\ f \in DOMAIN errors
       /\ f \in DOMAIN values

----------------------------------------------------------------------------
(* Claims about should_apply_validation, under SpecCondition *)

\* one item of a condition holds of the record
EntryMatches(entry) ==
  /\ entry.key \in DOMAIN data
  /\ IF entry.value.t = "list"
       THEN \E i \in 1..Len(entry.value.l) : PyEq(data[entry.key], entry.value.l[i])
       ELSE PyEq(data[entry.key], entry.value)

\* C6: should_apply_validation returns true for "all"; for a mapping it
\* returns true exactly when every item matches (membership for a list,
\* equality otherwise), and an item whose controlling field is absent never
\* matches, whatever the other items and their order.
C6_AllEntriesMatch ==
  pc = "returned" =>
    /\ call.kind = "all" => ret = TRUE
    /\ call.kind = "dict" =>
         (ret <=> \A i \in 1..Len(call.entries) : EntryMatches(call.entries[i]))

\* a mapping whose first item matches and whose second item expects false of
\* an absent field: the result is false
C6_Witness ==
  /\ pc = "returned"
  /\ call.kind = "dict"
  /\ Len(call.entries) = 2
  /\ EntryMatches(call.entries[1])
  /\ call.entries[2].key \notin DOMAIN data
  /\ call.entries[2].value = Bool(FALSE)
  /\ ret = FALSE

----------------------------------------------------------------------------
(* Claims about the domain-rule validators, under SpecUtils *)

IsNumber(v) == v.t = "num"

WellFormedVoxel(v) == v.t = "list" /\ Len(v.l) = 3 /\ \A i \in 1..3 : IsNumber(v.l[i])

Between(v, lo, hi) == v.n >= lo * Scale /\ v.n <= hi * Scale

\* the value lies inside the error bounds of the function
InsideErrorBounds(fn, v) ==
  CASE fn = "validate_total_pairs" -> Between(v, -1, 100)
    [] fn = "validate_labeling_duration" -> Between(v, 0, 100)
    [] fn = "validate_post_labeling_delay" -> Between(v, 0, 100)
    [] fn = "validate_inversion_time" -> v.n > 0
    [] fn = "validate_voxel_size" -> \A i \in 1..3 : Between(v.l[i], 0, 100)

NumericInput ==
  /\ call.fn # "validate_background_suppression"
  /\ IF call.fn = "validate_voxel_size" THEN WellFormedVoxel(call.arg) ELSE IsNumber(call.arg)

\* C4: a numeric validator given a number (validate_voxel_size: three numbers)
\* returns no warning when it returns an error, and returns no error when the
\* value (every element) lies inside the error bounds.
C4_ErrorExcludesWarning ==
  (pc # "call" /\ NumericInput) =>
    /\ pc = "returned"
    /\ ret.errors # <<>> => ret.warnings = <<>>
    /\ InsideErrorBounds(call.fn, call.arg) => ret.errors = <<>>

\* C5: validate_background_suppression given a boolean, a number, a string or
\* None returns no error exactly when the value is the boolean true or false.
C5_OnlyBooleanLiterals ==
  (pc # "call" /\ call.fn = "validate_background_suppression"
     /\ call.arg.t \in {"bool", "num", "str", "none"}) =>
    /\ pc = "returned"
    /\ (ret.errors = <<>>) <=> (call.arg.t = "bool")

\* C8: validate_voxel_size given three numbers returns at most one range
\* error and at most one warning, however many elements are out of range, and
\* the list unchanged; given anything that is not a list of length 3 it
\* returns the one shape error and no warning.
C8_OneMessagePerCategory ==
  (pc # "call" /\ call.fn = "validate_voxel_size") =>
    /\ WellFormedVoxel(call.arg) =>
         /\ pc = "returned"
         /\ Len(ret.errors) <= 1
         /\ Len(ret.warnings) <= 1
         /\ ret.value = call.arg
    /\ (call.arg.t # "list" \/ Len(call.arg.l) # 3) =>
         /\ pc = "returned"
         /\ ret.errors = <<MsgVoxelShape>>
         /\ ret.warnings = <<>>

----------------------------------------------------------------------------
(* Claims about verify_PCASL_required_parameters, under SpecPcasl *)

Count(q, x) == Cardinality({i \in 1..Len(q) : q[i] = x})

\* C7: when neither ArterialSpinLabelingType is "PCASL" nor ArterialSpinType
\* is "(P)CASL", both values are "Not applicable" and there is no error and no
\* warning; otherwise the function returns and each of LabelingDuration and
\* PostLabelingDelay is either absent, with one 'not provided' error and no
\* entry in values, or present and in values with its raw value.
C7_PcaslGate ==
  pc \in {"returned", "raised"} =>
    IF ~PcaslGate(data)
      THEN /\ pc = "returned"
           /\ DOMAIN values = {"LabelingDuration", "PostLabelingDelay"}
           /\ values["LabelingDuration"] = Str("Not applicable")
           /\ values["PostLabelingDelay"] = Str("Not applicable")
           /\ errors = <<>> /\ warnings = <<>>
      ELSE /\ pc = "returned"
           /\ \A p \in {<<"LabelingDuration", MsgDurationMissing>>,
                        <<"PostLabelingDelay", MsgDelayMissing>>} :
                IF p[1] \notin DOMAIN data
                  THEN Count(errors, p[2]) = 1 /\ p[1] \notin DOMAIN values
                  ELSE /\ Count(errors, p[2]) = 0
                       /\ p[1] \in DOMAIN values
                       /\ values[p[1]] = data[p[1]]

----------------------------------------------------------------------------
(* Claims about verify_general_parameters, under SpecGeneral *)

GeneralValueKeys ==
  {"ArterialSpinLabelingType", "BackgroundSuppression", "MethodForM0bEstimation",
   "TotalAcquiredPairs", "AcquisitionVoxelSize"}

\* C9: verify_general_parameters returns for every record, with all five keys
\* in values: a field of the wrong type does not abort the run.
C9_NeverFatal ==
  pc \in {"returned", "raised"} =>
    /\ pc = "returned"
    /\ GeneralValueKeys \subseteq DOMAIN values

\* the messages that name a field of the record
MessagesAbout(field) ==
  CASE field = "ArterialSpinLabelingType" -> {MsgAslType}
    [] field = "BackgroundSuppression" -> {MsgBackgroundSuppression}
    [] field = "M0Type" -> {MsgM0b}
    [] field = "TotalAcquiredPairs" -> {MsgPairsRange}
    [] field = "AcquisitionVoxelSize" -> {MsgVoxelShape, MsgVoxelRange}

\* C10: when verify_general_parameters returns, each of the five general
\* required fields that the record lacks has an error in the errors list.
C10_MissingIsReported ==
  pc = "returned" =>
    \A field \in {"ArterialSpinLabelingType", "BackgroundSuppression", "M0Type",
                  "TotalAcquiredPairs", "AcquisitionVoxelSize"} :
      field \notin DOMAIN data => \E i \in 1..Len(errors) : errors[i] \in MessagesAbout(field)

====
